---- MODULE Spec2Model ----
(***************************************************************************)
(* The per-session streaming pipeline of the interview server:             *)
(*   StreamingAudioProcessor (src/services/stt.py), the socket handlers    *)
(*   that drive it (src/sockets/events.py) and the part of                 *)
(*   process_user_transcript / end_interview_naturally                     *)
(*   (src/services/flow.py) that calls back into it.                       *)
(*                                                                         *)
(* Threads of the program that appear here:                                *)
(*   - the streaming worker (_stream_audio), one per start();              *)
(*   - the request generator of the open stream (_audio_generator), which  *)
(*     the gRPC client drives concurrently with the worker;                *)
(*   - one _check_silence thread per final result;                         *)
(*   - socket handlers (audio_chunk, ai_speech_ended, stop_interview,      *)
(*     disconnect), each on a thread of its own (async_mode='threading').  *)
(*                                                                         *)
(* Time is counted in whole seconds.  A timestamp field of the program     *)
(* (last_final_time, last_restart_time) is kept as the time elapsed since  *)
(* the instant it records, saturating at the largest value it is compared  *)
(* with; "x = time.time()" is x' = 0, and "time.time() - x" is x.          *)
(***************************************************************************)
EXTENDS Integers, Sequences, FiniteSets, TLC

\* ------------------------------------------------------------------------
\* Program constants
\* ------------------------------------------------------------------------
SILENCE_THRESHOLD == 3
max_restarts == 10
restart_cooldown == 2
max_consecutive_errors == 3
QueueMaxSize == 100
JoinTimeout == 3
MaxBackoff == 5
MIN_QUESTIONS == 4
MAX_QUESTIONS == 10
buffer_time == 3

\* ------------------------------------------------------------------------
\* Bounds of the model
\* ------------------------------------------------------------------------
MaxWorkers == 2      \* worker threads that may be alive at once
MaxChecks == 2       \* _check_silence threads that may be alive at once
MaxFrags == 2        \* final fragments accepted into the buffer over a run
MaxCallbacks == 2    \* completion callbacks recorded
MaxAdders == 2       \* audio_chunk handlers inside add_audio at once
MaxChunks == 2       \* audio chunks offered to add_audio
MaxReports == 2      \* generate_and_send_report threads that may be alive at once
MaxStarts == 2       \* start_interview handlers that may be running at once
MaxAssembly == 1     \* seconds of report assembly that are told apart
QueueChunks == 102   \* audio chunks offered to a queue that is to fill

\* Python None, in the fields that hold a number or a thread
None == -1

WorkerIds == 1..MaxWorkers
CheckIds == 1..MaxChecks
AdderIds == 1..MaxAdders
ReportIds == 1..MaxReports
StartIds == 1..MaxStarts

\* ------------------------------------------------------------------------
\* Text: a Python str is a sequence of one-character strings
\* ------------------------------------------------------------------------
Blank == " "

RECURSIVE LStrip(_)
LStrip(s) == IF s # <<>> /\ Head(s) = Blank THEN LStrip(Tail(s)) ELSE s

RECURSIVE RStrip(_)
RStrip(s) ==
    IF s # <<>> /\ s[Len(s)] = Blank THEN RStrip(SubSeq(s, 1, Len(s) - 1)) ELSE s

\* str.strip()
Strip(s) == RStrip(LStrip(s))

\* str.isspace(): non-empty and every character is whitespace
IsSpace(s) == s # <<>> /\ \A i \in 1..Len(s) : s[i] = Blank

\* The transcripts the recognition backend may put in a result.
Transcripts ==
    { <<>>,
      <<Blank>>,
      <<"a">>,
      <<"h", "i">>,
      <<Blank, "b", "y", "e", Blank>> }

\* A response of the stream: no result / no alternative, or one result.
NoResult == [kind |-> "empty"]
Responses ==
    {NoResult} \cup [kind : {"result"}, is_final : BOOLEAN, transcript : Transcripts]

\* The errors a recognition stream may end with.
TransientErrors == {"ServiceUnavailable", "DeadlineExceeded", "ConnectionError"}
StreamErrors ==
    {"Cancelled", "UnknownIterating", "UnknownOther", "Other"} \cup TransientErrors

\* ------------------------------------------------------------------------
\* State
\* ------------------------------------------------------------------------
VARIABLES
    \* StreamingAudioProcessor fields
    is_running,          \* self.is_running
    is_listening,        \* self.is_listening
    audio_queue,         \* self.audio_queue: chunks and the None sentinel, oldest first
    current_transcript,  \* self.current_transcript
    last_final_time,     \* self.last_final_time: None, or seconds elapsed since it
    restart_lock,        \* self.restart_lock: TRUE while a stop() holds it over join()
    restart_count,       \* self.restart_count
    last_restart_time,   \* self.last_restart_time: seconds elapsed since it
    active_stream,       \* self.active_stream: None, or the worker whose stream it is
    stream_thread,       \* self.stream_thread: None, or the worker last started
    \* threads
    worker,              \* _stream_audio threads and the generator of their stream
    checker,             \* _check_silence threads (and the callback they run)
    adder,               \* audio_chunk handlers inside add_audio
    stopper,             \* stop_interview / disconnect handlers inside stop()
    starter,             \* start_interview handlers
    join_waited,         \* seconds the holder of restart_lock has waited in join()
    \* session registry entry (sessions[session_id])
    session_exists,
    session_running,     \* sessions[session_id]['is_running']
    chat_history,        \* sessions[session_id]['chat_history']
    reporter,            \* generate_and_send_report threads of the session
    \* observation
    emit,                \* outbound events and callbacks produced by the last step
    callbacks,           \* texts passed to on_transcript_callback, in order
    accepted,            \* final fragments appended to the buffer: [text, gap]
    since_accept,        \* seconds since the last fragment was appended, or None
    nchunks,             \* audio chunks offered so far (chunks are numbered)
    prompt_at,           \* fragments accepted when the last confirmation prompt
                         \* was emitted, 0 when none was
    questions_sent,      \* "ai_message" events with a question_number emitted
                         \* in the interview
    add_failed           \* an add_audio call ended with an uncaught exception

mgr == <<is_running, is_listening, audio_queue, current_transcript, last_final_time,
         restart_lock, restart_count, last_restart_time, active_stream, stream_thread>>
threads == <<worker, checker, adder, stopper, join_waited, starter>>
session == <<session_exists, session_running, chat_history, reporter>>
obs == <<emit, callbacks, accepted, since_accept, nchunks, add_failed, prompt_at,
        questions_sent>>
vars == <<mgr, threads, session, obs>>

\* the callers of stop() other than the orchestrator: the two socket handlers,
\* and a direct call of the method
StopHandlers == {"stop_interview", "disconnect", "api"}

\* A worker thread: where it is in _stream_audio (pc), its local
\* consecutive_errors, where the generator of its open stream is (gen), the
\* seconds slept in the backoff, whether the handler it is in is the generic
\* "except Exception" one, and two observations: whether its last stream ended
\* with a transient error (erred) and the seconds that had elapsed since the
\* previous restart when that error was handled, aged since (prev_restart).
IdleWorker ==
    [pc |-> "none", consecutive_errors |-> 0, gen |-> "off", slept |-> 0,
     generic |-> FALSE, erred |-> FALSE, prev_restart |-> restart_cooldown]
IdleChecker ==
    [pc |-> "none", slept |-> 0, complete_text |-> <<>>, prompt_count |-> 0,
     user_initiated |-> FALSE, questions_asked |-> 0]
IdleAdder == [pc |-> "none", chunk |-> 0]

\* A generate_and_send_report thread: where it is (pc), the report it built
\* (the Q&A pairs of 'detailed_qa'), total_wait_time in tenths of a second,
\* and the seconds spent in the step it is in (the assembly of the report,
\* then the sleep).
IdleReporter == [pc |-> "none", detailed_qa |-> <<>>, wait |-> 0, slept |-> 0]

\* The entries of chat_history.  A key that an entry does not have is None.
\* Texts of the dialogue backend are numbers that identify them.
MetaEntry ==
    [kind |-> "metadata", interviewer |-> None, candidate |-> <<>>,
     evaluation |-> None, score |-> None]
InterviewerEntry(question, evaluation, score) ==
    [kind |-> "interviewer", interviewer |-> question, candidate |-> <<>>,
     evaluation |-> evaluation, score |-> score]
CandidateEntry(text) ==
    [kind |-> "candidate", interviewer |-> None, candidate |-> text,
     evaluation |-> None, score |-> None]

\* chat_history when start_interview has returned: the metadata entry and the
\* opening question, which carries no evaluation and no score
FirstHistory == <<MetaEntry, InterviewerEntry(2, None, None)>>

\* threading.Thread.is_alive()
IsAlive(w) == w # None /\ worker[w].pc # "none"

Min(a, b) == IF a < b THEN a ELSE b

\* one more second on an elapsed-time value that saturates at top
Older(t, top) == IF t = None THEN None ELSE Min(t + 1, top)

\* StreamingAudioProcessor.__init__, after connect and start_interview have
\* registered the session and constructed its processor
Init ==
    /\ is_running = FALSE
    /\ is_listening = FALSE
    /\ audio_queue = <<>>
    /\ current_transcript = <<>>
    /\ last_final_time = None
    /\ restart_lock = FALSE
    /\ restart_count = 0
    /\ last_restart_time = restart_cooldown
    /\ active_stream = None
    /\ stream_thread = None
    /\ worker = [w \in WorkerIds |-> IdleWorker]
    /\ checker = [c \in CheckIds |-> IdleChecker]
    /\ adder = [a \in AdderIds |-> IdleAdder]
    /\ stopper = [h \in StopHandlers |-> "idle"]
    /\ join_waited = 0
    /\ starter = [s \in StartIds |-> "none"]
    /\ session_exists = TRUE
    /\ session_running = TRUE
    /\ chat_history = FirstHistory
    /\ reporter = [r \in ReportIds |-> IdleReporter]
    /\ emit = {}
    /\ callbacks = <<>>
    /\ accepted = <<>>
    /\ since_accept = None
    /\ nchunks = 0
    /\ add_failed = FALSE
    /\ prompt_at = 0
    /\ questions_sent = 1

\* The session with the history h and a started processor whose stream is
\* open and whose buffer is empty, muted or listening
Taken(h, listening) ==
    /\ is_running = TRUE
    /\ is_listening = listening
    /\ audio_queue = <<>>
    /\ current_transcript = <<>>
    /\ last_final_time = None
    /\ restart_lock = FALSE
    /\ restart_count = 0
    /\ last_restart_time = restart_cooldown
    /\ active_stream = 1
    /\ stream_thread = 1
    /\ worker = [w \in WorkerIds |->
                    IF w = 1 THEN [IdleWorker EXCEPT !.pc = "responses", !.gen = "check"]
                    ELSE IdleWorker]
    /\ checker = [c \in CheckIds |-> IdleChecker]
    /\ adder = [a \in AdderIds |-> IdleAdder]
    /\ stopper = [h2 \in StopHandlers |-> "idle"]
    /\ join_waited = 0
    /\ starter = [s \in StartIds |-> "none"]
    /\ session_exists = TRUE
    /\ session_running = TRUE
    /\ chat_history = h
    /\ reporter = [r \in ReportIds |-> IdleReporter]
    /\ emit = {}
    /\ callbacks = <<>>
    /\ accepted = <<>>
    /\ since_accept = None
    /\ nchunks = 0
    /\ add_failed = FALSE
    /\ prompt_at = 0
    /\ questions_sent = Cardinality({i \in 1..Len(h) : h[i].kind = "interviewer"})

\* The session with the history h while the interviewer speaks her latest
\* question: the processor was started at the first "ai_speech_ended", its
\* stream is open, and process_user_transcript has muted it
TakenUp(h) == Taken(h, FALSE)

\* The session with the history h when the handler of "ai_speech_ended" has
\* unmuted the processor after the latest question
Listening(h) == Taken(h, TRUE)

\* ------------------------------------------------------------------------
\* StreamingAudioProcessor: start, mute, unmute
\* ------------------------------------------------------------------------
FreeWorkers == {w \in WorkerIds : worker[w].pc = "none"}
FreeCheckers == {c \in CheckIds : checker[c].pc = "none"}
FreeAdders == {a \in AdderIds : adder[a].pc = "none"}
FreeReporters == {r \in ReportIds : reporter[r].pc = "none"}

\* the slot a new thread takes
Lowest(S) == CHOOSE x \in S : \A y \in S : x <= y

\* start() without its "if self.is_running: return"
start_unguarded ==
    /\ ~restart_lock
    /\ FreeWorkers # {}
    /\ is_running' = TRUE
    /\ is_listening' = TRUE
    /\ restart_count' = 0
    /\ last_restart_time' = restart_cooldown
    /\ stream_thread' = Lowest(FreeWorkers)
    /\ worker' = [worker EXCEPT ![Lowest(FreeWorkers)] =
                      [IdleWorker EXCEPT !.pc = "while"]]

\* start(): under restart_lock; returns at once when already running
start ==
    /\ ~restart_lock
    /\ IF is_running
       THEN UNCHANGED <<is_running, is_listening, restart_count, last_restart_time,
                        stream_thread, worker>>
       ELSE /\ FreeWorkers # {}
            /\ is_running' = TRUE
            /\ is_listening' = TRUE
            /\ restart_count' = 0
            /\ last_restart_time' = restart_cooldown
            /\ stream_thread' = Lowest(FreeWorkers)
            /\ worker' = [worker EXCEPT ![Lowest(FreeWorkers)] =
                              [IdleWorker EXCEPT !.pc = "while"]]

\* mute()
mute ==
    /\ is_listening' = FALSE
    /\ current_transcript' = <<>>
    /\ last_final_time' = None

\* unmute()
unmute ==
    /\ is_listening' = TRUE
    /\ current_transcript' = <<>>
    /\ last_final_time' = None

\* ------------------------------------------------------------------------
\* The streaming worker: _stream_audio, _process_responses, _should_restart
\* ------------------------------------------------------------------------
\* the loop of _stream_audio with "while self.is_running" for its condition
WhileCheck_no_ceiling(w) ==
    /\ worker[w].pc = "while"
    /\ IF is_running
       THEN /\ worker' = [worker EXCEPT ![w].pc = "responses", ![w].gen = "check"]
            /\ active_stream' = w
       ELSE /\ worker' = [worker EXCEPT ![w] = IdleWorker]
            /\ UNCHANGED active_stream
    /\ emit' = {}
    /\ UNCHANGED <<questions_sent, prompt_at, starter, is_running, is_listening, audio_queue, current_transcript,
                   last_final_time, restart_lock, restart_count, last_restart_time,
                   stream_thread, checker, adder, stopper, join_waited, session,
                   callbacks, accepted, since_accept, nchunks, add_failed>>

\* "while self.is_running and self.restart_count < self.max_restarts":
\* either a fresh generator and a new stream, or the end of the thread
WhileCheck(w) ==
    /\ worker[w].pc = "while"
    /\ IF is_running /\ restart_count < max_restarts
       THEN /\ worker' = [worker EXCEPT ![w].pc = "responses", ![w].gen = "check"]
            /\ active_stream' = w
       ELSE /\ worker' = [worker EXCEPT ![w] = IdleWorker]
            /\ UNCHANGED active_stream
    /\ emit' = {}
    /\ UNCHANGED <<questions_sent, prompt_at, starter, is_running, is_listening, audio_queue, current_transcript,
                   last_final_time, restart_lock, restart_count, last_restart_time,
                   stream_thread, checker, adder, stopper, join_waited, session,
                   callbacks, accepted, since_accept, nchunks, add_failed>>

\* "transcript.strip() and len(transcript.strip()) > 1"
Accepts(transcript) == Strip(transcript) # <<>> /\ Len(Strip(transcript)) > 1

\* the stream returns normally: consecutive_errors = 0, finally, next iteration
StreamReturns(w) ==
    /\ worker' = [worker EXCEPT ![w].pc = "while", ![w].gen = "off",
                                ![w].consecutive_errors = 0, ![w].erred = FALSE]
    /\ active_stream' = None

\* One response of the stream, in _process_responses
RecvResponse(w, r) ==
    /\ worker[w].pc = "responses"
    /\ IF ~is_running
       THEN \* break: the loop, and the stream, end normally
            /\ StreamReturns(w)
            /\ emit' = {}
            /\ UNCHANGED <<current_transcript, last_final_time, checker, accepted,
                           since_accept>>
       ELSE /\ UNCHANGED <<worker, active_stream>>
            /\ IF r.kind = "empty" \/ ~is_listening
               THEN /\ emit' = {}
                    /\ UNCHANGED <<current_transcript, last_final_time, checker,
                                   accepted, since_accept>>
               ELSE IF ~r.is_final
               THEN /\ emit' = {"interim_transcript"}
                    /\ UNCHANGED <<current_transcript, last_final_time, checker,
                                   accepted, since_accept>>
               ELSE /\ FreeCheckers # {}
                    /\ IF Accepts(r.transcript)
                       THEN /\ Len(accepted) < MaxFrags
                            /\ current_transcript' =
                                   current_transcript \o Strip(r.transcript) \o <<Blank>>
                            /\ last_final_time' = 0
                            /\ emit' = {"final_transcript_part"}
                            /\ accepted' = Append(accepted,
                                   [text |-> Strip(r.transcript),
                                    gap |-> IF since_accept = None
                                            THEN SILENCE_THRESHOLD ELSE since_accept])
                            /\ since_accept' = 0
                       ELSE /\ emit' = {}
                            /\ UNCHANGED <<current_transcript, last_final_time,
                                           accepted, since_accept>>
                    /\ checker' = [checker EXCEPT ![Lowest(FreeCheckers)] =
                                       [IdleChecker EXCEPT !.pc = "sleep"]]
    /\ UNCHANGED <<questions_sent, prompt_at, starter, is_running, is_listening, audio_queue, restart_lock, restart_count,
                   last_restart_time, stream_thread, adder, stopper, join_waited,
                   session, callbacks, nchunks, add_failed>>

\* The response iterator is exhausted: _process_responses returns
StreamEnd(w) ==
    /\ worker[w].pc = "responses"
    /\ StreamReturns(w)
    /\ emit' = {}
    /\ UNCHANGED <<questions_sent, prompt_at, starter, is_running, is_listening, audio_queue, current_transcript,
                   last_final_time, restart_lock, restart_count, last_restart_time,
                   stream_thread, checker, adder, stopper, join_waited, session,
                   callbacks, accepted, since_accept, nchunks, add_failed>>

\* the limit tested with ">" for ">="
TooManyErrors_late(w, e) ==
    /\ e = "UnknownIterating" \/ e \in TransientErrors
    /\ worker[w].consecutive_errors + 1 > max_consecutive_errors

\* e is counted, and with it consecutive_errors reaches its limit
\* ("Too many consecutive errors" is printed)
TooManyErrors(w, e) ==
    /\ e = "UnknownIterating" \/ e \in TransientErrors
    /\ worker[w].consecutive_errors + 1 >= max_consecutive_errors

\* The stream raises e: the except clauses of _stream_audio, up to the call of
\* _should_restart (the thread then waits for restart_lock)
StreamError(w, e) ==
    /\ worker[w].pc = "responses"
    /\ active_stream' = None
    /\ worker' = [worker EXCEPT ![w] =
          IF e = "Cancelled"
          THEN IF ~is_running
               THEN IdleWorker
               ELSE [@ EXCEPT !.pc = "while", !.gen = "off", !.erred = FALSE]
          ELSE IF e = "UnknownIterating" \/ e \in TransientErrors
          THEN IF TooManyErrors(w, e)
               THEN IdleWorker
               ELSE [@ EXCEPT !.pc = "restart", !.gen = "off", !.erred = TRUE,
                              !.consecutive_errors = @ + 1,
                              !.generic = (e \in TransientErrors)]
          ELSE IdleWorker]
    /\ emit' = IF TooManyErrors(w, e) THEN {"too_many_consecutive_errors"} ELSE {}
    /\ UNCHANGED <<questions_sent, prompt_at, starter, is_running, is_listening, audio_queue, current_transcript,
                   last_final_time, restart_lock, restart_count, last_restart_time,
                   stream_thread, checker, adder, stopper, join_waited, session,
                   callbacks, accepted, since_accept, nchunks, add_failed>>

\* what _should_restart() returns
RestartAllowed ==
    /\ is_running
    /\ restart_count < max_restarts
    /\ ~(last_restart_time < restart_cooldown)

\* the audio chunks of a queue (the None sentinel left out)
AudioOf(q) == SelectSeq(q, LAMBDA x : x # None)

\* what the handler does when _should_restart() returned False: the handler of
\* Unknown breaks; the generic handler has no break and falls out of the try
AfterRefusal(w) ==
    IF worker[w].generic
    THEN [worker[w] EXCEPT !.pc = "while", !.prev_restart = last_restart_time]
    ELSE IdleWorker

\* _should_restart(), under restart_lock, and the branch taken on its result
ShouldRestart(w) ==
    /\ worker[w].pc = "restart"
    /\ ~restart_lock
    /\ IF RestartAllowed
       THEN /\ restart_count' = restart_count + 1
            /\ last_restart_time' = 0
            /\ audio_queue' = <<>>
            /\ worker' = [worker EXCEPT ![w].pc = "sleep", ![w].slept = 0,
                                        ![w].prev_restart = last_restart_time]
       ELSE /\ worker' = [worker EXCEPT ![w] = AfterRefusal(w)]
            /\ UNCHANGED <<restart_count, last_restart_time, audio_queue>>
    /\ emit' = {}
    /\ UNCHANGED <<questions_sent, prompt_at, starter, is_running, is_listening, current_transcript, last_final_time,
                   restart_lock, active_stream, stream_thread, checker, adder, stopper,
                   join_waited, session, callbacks, accepted, since_accept, nchunks,
                   add_failed>>

\* time.sleep(min(1.0 * consecutive_errors, 5.0))
Backoff(w) == Min(worker[w].consecutive_errors, MaxBackoff)

\* the backoff is over: continue (finally, then the loop condition)
BackoffDone(w) ==
    /\ worker[w].pc = "sleep"
    /\ worker[w].slept >= Backoff(w)
    /\ worker' = [worker EXCEPT ![w].pc = "while", ![w].slept = 0]
    /\ active_stream' = None
    /\ emit' = {}
    /\ UNCHANGED <<questions_sent, prompt_at, starter, is_running, is_listening, audio_queue, current_transcript,
                   last_final_time, restart_lock, restart_count, last_restart_time,
                   stream_thread, checker, adder, stopper, join_waited, session,
                   callbacks, accepted, since_accept, nchunks, add_failed>>

\* ------------------------------------------------------------------------
\* The request generator of an open stream: _audio_generator, as consumed by
\* the request iterator of _create_streaming_requests
\* ------------------------------------------------------------------------
\* "while self.is_running"
GenCheck(w) ==
    /\ worker[w].gen = "check"
    /\ worker' = [worker EXCEPT ![w].gen = IF is_running THEN "get" ELSE "off"]
    /\ emit' = {}
    /\ UNCHANGED <<questions_sent, prompt_at, starter, mgr, checker, adder, stopper, join_waited, session, callbacks,
                   accepted, since_accept, nchunks, add_failed>>

\* audio_queue.get(timeout=1) returns an item: the sentinel ends the generator,
\* a chunk is yielded and the request iterator stops on "not self.is_running"
GenGet(w) ==
    /\ worker[w].gen = "get"
    /\ audio_queue # <<>>
    /\ audio_queue' = Tail(audio_queue)
    /\ worker' = [worker EXCEPT ![w].gen =
                      IF Head(audio_queue) = None \/ ~is_running THEN "off" ELSE "check"]
    /\ emit' = {}
    /\ UNCHANGED <<questions_sent, prompt_at, starter, is_running, is_listening, current_transcript, last_final_time,
                   restart_lock, restart_count, last_restart_time, active_stream,
                   stream_thread, checker, adder, stopper, join_waited, session,
                   callbacks, accepted, since_accept, nchunks, add_failed>>

\* audio_queue.get(timeout=1) raises queue.Empty: back to the loop condition
\* (the keep-alive chunk it may yield changes only what is sent to the backend)
GenTimeout(w) ==
    /\ worker[w].gen = "get"
    /\ audio_queue = <<>>
    /\ worker' = [worker EXCEPT ![w].gen = "check"]
    /\ emit' = {}
    /\ UNCHANGED <<questions_sent, prompt_at, starter, mgr, checker, adder, stopper, join_waited, session, callbacks,
                   accepted, since_accept, nchunks, add_failed>>

\* ------------------------------------------------------------------------
\* add_audio, called by handle_audio_chunk; each statement is a step of the
\* handler's thread
\* ------------------------------------------------------------------------
\* handle_audio_chunk up to "if self.is_running:" of add_audio; cap is the
\* number of chunks the client sends
AudioChunk(cap) ==
    /\ session_exists /\ session_running
    /\ nchunks < cap
    /\ FreeAdders # {}
    /\ nchunks' = nchunks + 1
    /\ adder' = IF is_running
                THEN [adder EXCEPT ![Lowest(FreeAdders)] =
                          [pc |-> "put", chunk |-> nchunks + 1]]
                ELSE adder
    /\ emit' = {}
    /\ UNCHANGED <<questions_sent, prompt_at, starter, mgr, worker, checker, stopper, join_waited, session, callbacks,
                   accepted, since_accept, add_failed>>

\* queue.Queue.put(item, block=False) succeeds
HasRoom == Len(audio_queue) < QueueMaxSize

\* "self.audio_queue.put(audio_bytes, block=False)", or queue.Full
AddPut(a) ==
    /\ adder[a].pc = "put"
    /\ IF HasRoom
       THEN /\ audio_queue' = Append(audio_queue, adder[a].chunk)
            /\ adder' = [adder EXCEPT ![a] = IdleAdder]
       ELSE /\ adder' = [adder EXCEPT ![a].pc = "evict"]
            /\ UNCHANGED audio_queue
    /\ emit' = {}
    /\ UNCHANGED <<questions_sent, prompt_at, starter, is_running, is_listening, current_transcript, last_final_time,
                   restart_lock, restart_count, last_restart_time, active_stream,
                   stream_thread, worker, checker, stopper, join_waited, session,
                   callbacks, accepted, since_accept, nchunks, add_failed>>

\* "self.audio_queue.get_nowait()" of the except queue.Full clause, or
\* queue.Empty, which is passed over
AddEvict(a) ==
    /\ adder[a].pc = "evict"
    /\ IF audio_queue # <<>>
       THEN /\ audio_queue' = Tail(audio_queue)
            /\ adder' = [adder EXCEPT ![a].pc = "reput"]
       ELSE /\ adder' = [adder EXCEPT ![a] = IdleAdder]
            /\ UNCHANGED audio_queue
    /\ emit' = {}
    /\ UNCHANGED <<questions_sent, prompt_at, starter, is_running, is_listening, current_transcript, last_final_time,
                   restart_lock, restart_count, last_restart_time, active_stream,
                   stream_thread, worker, checker, stopper, join_waited, session,
                   callbacks, accepted, since_accept, nchunks, add_failed>>

\* the second put of the except queue.Full clause; a queue.Full it raises is
\* caught by nothing
AddReput(a) ==
    /\ adder[a].pc = "reput"
    /\ IF HasRoom
       THEN /\ audio_queue' = Append(audio_queue, adder[a].chunk)
            /\ UNCHANGED add_failed
       ELSE /\ add_failed' = TRUE
            /\ UNCHANGED audio_queue
    /\ adder' = [adder EXCEPT ![a] = IdleAdder]
    /\ emit' = {}
    /\ UNCHANGED <<questions_sent, prompt_at, starter, is_running, is_listening, current_transcript, last_final_time,
                   restart_lock, restart_count, last_restart_time, active_stream,
                   stream_thread, worker, checker, stopper, join_waited, session,
                   callbacks, accepted, since_accept, nchunks>>

\* ------------------------------------------------------------------------
\* stop()
\* ------------------------------------------------------------------------
\* lines 78-88 of stop(): the flags, the queue drained, the sentinel, the handle
StopBody ==
    /\ is_running' = FALSE
    /\ is_listening' = FALSE
    /\ audio_queue' = <<None>>
    /\ active_stream' = None

\* stop() from its entry to join(): it returns at once when not running,
\* and when there is no live thread to join; joins is whether it is left joining
StopEnter(joins) ==
    /\ ~restart_lock
    /\ joins = (is_running /\ IsAlive(stream_thread))
    /\ IF is_running
       THEN StopBody
       ELSE UNCHANGED <<is_running, is_listening, audio_queue, active_stream>>
    /\ restart_lock' = joins
    /\ join_waited' = 0

\* "self.stream_thread.join(timeout=3)" returns and restart_lock is released
StopJoined ==
    /\ restart_lock
    /\ ~IsAlive(stream_thread) \/ join_waited >= JoinTimeout
    /\ restart_lock' = FALSE
    /\ join_waited' = 0

\* ------------------------------------------------------------------------
\* _check_silence; each statement that reads or writes the shared buffer is
\* a step of the thread
\* ------------------------------------------------------------------------
\* time.sleep(SILENCE_THRESHOLD) is over; the test of line 324
SilenceWake(c) ==
    /\ checker[c].pc = "sleep"
    /\ checker[c].slept >= SILENCE_THRESHOLD
    /\ checker' = [checker EXCEPT ![c] =
          IF last_final_time # None /\ last_final_time >= SILENCE_THRESHOLD
          THEN [@ EXCEPT !.pc = "test", !.slept = 0]
          ELSE IdleChecker]
    /\ emit' = {}
    /\ UNCHANGED <<questions_sent, prompt_at, starter, mgr, worker, adder, stopper, join_waited, session, callbacks,
                   accepted, since_accept, nchunks, add_failed>>

\* the test of line 325 and the snapshot of line 326, or the else branch
SilenceTest(c) ==
    /\ checker[c].pc = "test"
    /\ IF Strip(current_transcript) # <<>> /\ is_listening
       THEN /\ checker' = [checker EXCEPT ![c].pc = "commit",
                               ![c].complete_text = Strip(current_transcript)]
            /\ UNCHANGED <<current_transcript, last_final_time>>
       ELSE /\ current_transcript' = <<>>
            /\ last_final_time' = None
            /\ checker' = [checker EXCEPT ![c] = IdleChecker]
    /\ emit' = {}
    /\ UNCHANGED <<questions_sent, prompt_at, starter, is_running, is_listening, audio_queue, restart_lock, restart_count,
                   last_restart_time, active_stream, stream_thread, worker, adder,
                   stopper, join_waited, session, callbacks, accepted, since_accept,
                   nchunks, add_failed>>

\* "len(complete_text) > 2 and not complete_text.isspace()"
Deliverable(text) == Len(text) > 2 /\ ~IsSpace(text)

\* lines 327-332: the buffer cleared, and the callback invoked (the thread is
\* then inside process_user_transcript)
SilenceCommit(c) ==
    /\ checker[c].pc = "commit"
    /\ current_transcript' = <<>>
    /\ last_final_time' = None
    /\ IF Deliverable(checker[c].complete_text)
       THEN /\ Len(callbacks) < MaxCallbacks
            /\ callbacks' = Append(callbacks, checker[c].complete_text)
            /\ emit' = {"callback"}
            /\ checker' = [checker EXCEPT ![c].pc = "callback"]
       ELSE /\ emit' = {}
            /\ checker' = [checker EXCEPT ![c] = IdleChecker]
            /\ UNCHANGED callbacks
    /\ UNCHANGED <<questions_sent, prompt_at, starter, is_running, is_listening, audio_queue, restart_lock, restart_count,
                   last_restart_time, active_stream, stream_thread, worker, adder,
                   stopper, join_waited, session, accepted, since_accept, nchunks,
                   add_failed>>

\* ------------------------------------------------------------------------
\* flow.py: clean_transcript, check_stop_command
\* ------------------------------------------------------------------------
\* \w of the regular expressions, over the characters of Transcripts
IsWordChar(ch) == ch \notin {Blank, "'"}

HasAt(s, i, word) ==
    /\ i + Len(word) - 1 <= Len(s)
    /\ SubSeq(s, i, i + Len(word) - 1) = word

RECURSIVE SkipBlanks(_, _)
SkipBlanks(s, i) == IF i <= Len(s) /\ s[i] = Blank THEN SkipBlanks(s, i + 1) ELSE i

Bye == <<"b", "y", "e">>

\* r'\bbye\b(?!\s*bye)' matches at i
ByeAt(s, i) ==
    /\ HasAt(s, i, Bye)
    /\ i = 1 \/ ~IsWordChar(s[i - 1])
    /\ i + 3 > Len(s) \/ ~IsWordChar(s[i + 3])
    /\ ~HasAt(s, SkipBlanks(s, i + 3), Bye)

\* re.sub of that pattern by 'by', from position i on
RECURSIVE SubBye(_, _)
SubBye(s, i) ==
    IF i > Len(s) THEN <<>>
    ELSE IF ByeAt(s, i) THEN <<"b", "y">> \o SubBye(s, i + 3)
    ELSE <<s[i]>> \o SubBye(s, i + 1)

\* re.sub(r'\s+', ' ', s)
RECURSIVE Squeeze(_)
Squeeze(s) ==
    IF s = <<>> THEN <<>>
    ELSE IF Head(s) = Blank
    THEN <<Blank>> \o Squeeze(LStrip(s))
    ELSE <<Head(s)>> \o Squeeze(Tail(s))

\* clean_transcript(text).  Of the correction table only the rule for "bye"
\* can match a text made of Transcripts: every other pattern holds a letter
\* that no transcript contains.
clean_transcript(text) ==
    IF text = <<>> THEN text ELSE Strip(Squeeze(SubBye(text, 1)))

stop_phrases ==
    { <<"s", "t", "o", "p", Blank, "t", "h", "e", Blank, "i", "n", "t", "e", "r", "v", "i", "e", "w">>,
      <<"e", "n", "d", Blank, "t", "h", "e", Blank, "i", "n", "t", "e", "r", "v", "i", "e", "w">>,
      <<"s", "t", "o", "p", Blank, "i", "n", "t", "e", "r", "v", "i", "e", "w">>,
      <<"e", "n", "d", Blank, "i", "n", "t", "e", "r", "v", "i", "e", "w">>,
      <<"f", "i", "n", "i", "s", "h", Blank, "i", "n", "t", "e", "r", "v", "i", "e", "w">>,
      <<"c", "o", "n", "c", "l", "u", "d", "e", Blank, "i", "n", "t", "e", "r", "v", "i", "e", "w">>,
      <<"t", "h", "a", "t", "'", "s", Blank, "a", "l", "l">>,
      <<"i", "'", "m", Blank, "d", "o", "n", "e">>,
      <<"n", "o", Blank, "m", "o", "r", "e", Blank, "q", "u", "e", "s", "t", "i", "o", "n", "s">> }

\* check_stop_command(text): some phrase is a substring of the text
check_stop_command(text) ==
    \E ph \in stop_phrases : \E i \in 1..Len(text) : HasAt(text, i, ph)

\* ------------------------------------------------------------------------
\* flow.py: process_user_transcript and end_interview_naturally, run by the
\* _check_silence thread that invoked the callback; the reply of the dialogue
\* backend is any of Replies.
\* ------------------------------------------------------------------------
\* "'interviewer' in entry", "'resume' in entry", "'candidate' in entry"
HasInterviewer(entry) == entry.interviewer # None
HasResume(entry) == entry.kind = "metadata"
HasCandidate(entry) == entry.kind = "candidate"

\* get_question_count(chat_history)
RECURSIVE get_question_count(_)
get_question_count(history) ==
    IF history = <<>> THEN 0
    ELSE (IF HasInterviewer(Head(history)) /\ ~HasResume(Head(history)) THEN 1 ELSE 0)
            + get_question_count(Tail(history))

\* questions_asked that counts every turn, the answers included
llm_questions_asked_turns(history) ==
    Cardinality({i \in 1..Len(history) : ~HasResume(history[i])})

\* questions_asked of get_llm_response, which goes into the prompt
llm_questions_asked(history) ==
    Cardinality({i \in 1..Len(history) :
                    HasInterviewer(history[i]) /\ ~HasResume(history[i])})

\* the numbers of questions asked with which a session is taken up
QuestionCounts ==
    {1, MIN_QUESTIONS - 1, MIN_QUESTIONS, MAX_QUESTIONS - 1, MAX_QUESTIONS}

\* a structured reply that continues, one that ends the interview, a reply
\* that is not JSON, and a reply whose handling raises (JSON that is no object)
Replies == {"turn", "end", "invalid", "raises"}

\* an answer of the candidate, as the segmenter delivers it
Answer == <<"h", "i", Blank, "h", "i">>

\* an utterance that holds a stop phrase
StopRequest == <<"e", "n", "d", Blank, "i", "n", "t", "e", "r", "v", "i", "e", "w">>

\* chat_history after k questions, each but the last answered: the opening
\* question, then the questions of structured replies
RECURSIVE History(_)
History(k) ==
    IF k <= 1 THEN FirstHistory
    ELSE History(k - 1) \o
         << CandidateEntry(Answer),
            InterviewerEntry(2 * k, 2 * k, 2 * k) >>

\* a request to stop is granted at once whatever the number of questions
StopGranted_always(questions_asked) == TRUE

\* "if questions_asked >= MIN_QUESTIONS" of the stop command
StopGranted(questions_asked) == questions_asked >= MIN_QUESTIONS

\* the reply closes the interview without the test of MIN_QUESTIONS
Closes_unchecked(reply, questions_asked) ==
    reply = "end" \/ questions_asked >= MAX_QUESTIONS

\* "if not should_continue or questions_asked >= MAX_QUESTIONS:
\*      if questions_asked >= MIN_QUESTIONS:" for a structured reply
Closes(reply, questions_asked) ==
    /\ reply = "end" \/ questions_asked >= MAX_QUESTIONS
    /\ questions_asked >= MIN_QUESTIONS

\* process_user_transcript up to the request sent to the dialogue backend
\* (the prompt of get_llm_response included).  With the session removed every
\* branch raises KeyError, and the handler of line 174 raises it once more.
OrchEnter(c) ==
    /\ checker[c].pc = "callback"
    /\ LET user_text == clean_transcript(checker[c].complete_text)
           appended == Append(chat_history, CandidateEntry(user_text))
       IN
       IF ~session_exists
       THEN /\ checker' = [checker EXCEPT ![c] = IdleChecker]
            /\ emit' = {"KeyError"}
            /\ UNCHANGED <<is_listening, current_transcript, last_final_time,
                           chat_history, prompt_at>>
       ELSE IF user_text = <<>> \/ Len(user_text) < 3
       THEN /\ unmute
            /\ checker' = [checker EXCEPT ![c] = IdleChecker]
            /\ emit' = {}
            /\ UNCHANGED <<chat_history, prompt_at>>
       ELSE IF check_stop_command(user_text)
       THEN IF StopGranted(get_question_count(chat_history))
            THEN /\ checker' = [checker EXCEPT ![c].pc = "end",
                                               ![c].user_initiated = TRUE,
                                               ![c].questions_asked =
                                                   get_question_count(chat_history)]
                 /\ emit' = {}
                 /\ UNCHANGED <<is_listening, current_transcript, last_final_time,
                                chat_history, prompt_at>>
            ELSE /\ mute
                 /\ checker' = [checker EXCEPT ![c] = IdleChecker]
                 /\ emit' = {"ai_message_requires_confirmation"}
                 /\ prompt_at' = Len(accepted)
                 /\ UNCHANGED chat_history
       ELSE /\ mute
            /\ chat_history' = appended
            /\ emit' = {"user_transcript"}
            /\ UNCHANGED prompt_at
            /\ checker' = [checker EXCEPT ![c] =
                  IF get_question_count(appended) >= MAX_QUESTIONS
                  THEN [@ EXCEPT !.pc = "end", !.user_initiated = FALSE,
                                 !.questions_asked = get_question_count(appended)]
                  ELSE [@ EXCEPT !.pc = "llm",
                                 !.prompt_count = llm_questions_asked(appended)]]
    /\ UNCHANGED <<starter, is_running, audio_queue, restart_lock, restart_count,
                   last_restart_time, active_stream, stream_thread, worker, adder,
                   stopper, join_waited, session_exists, session_running, reporter,
                   callbacks, accepted, since_accept, nchunks, add_failed,
                   questions_sent>>

\* get_llm_response returned: the rest of process_user_transcript.  The
\* texts of a reply are numbered by the place its entry takes in the history.
OrchReply(c, reply) ==
    /\ checker[c].pc = "llm"
    /\ LET place == Len(chat_history) + 1
           questions_asked == get_question_count(chat_history)
       IN
       IF ~session_exists
       THEN /\ checker' = [checker EXCEPT ![c] = IdleChecker]
            /\ emit' = {"KeyError"}
            /\ UNCHANGED <<is_listening, current_transcript, last_final_time,
                           chat_history, questions_sent>>
       ELSE IF reply = "raises"
       THEN /\ unmute
            /\ checker' = [checker EXCEPT ![c] = IdleChecker]
            /\ emit' = {}
            /\ UNCHANGED <<chat_history, questions_sent>>
       ELSE IF reply = "invalid"
       THEN /\ chat_history' = Append(chat_history, InterviewerEntry(place, None, None))
            /\ checker' = [checker EXCEPT ![c] = IdleChecker]
            /\ emit' = {"ai_message_plain"}
            /\ questions_sent' = questions_sent + 1
            /\ UNCHANGED <<is_listening, current_transcript, last_final_time>>
       ELSE /\ chat_history' =
                   Append(chat_history, InterviewerEntry(place, place, place))
            /\ IF Closes(reply, questions_asked)
               THEN /\ checker' = [checker EXCEPT ![c].pc = "end",
                                                  ![c].user_initiated = FALSE,
                                                  ![c].questions_asked =
                                                      questions_asked + 1]
                    /\ emit' = {}
                    /\ UNCHANGED questions_sent
               ELSE /\ checker' = [checker EXCEPT ![c] = IdleChecker]
                    /\ emit' = {"ai_message"}
                    /\ questions_sent' = questions_sent + 1
            /\ UNCHANGED <<is_listening, current_transcript, last_final_time>>
    /\ UNCHANGED <<prompt_at, starter, is_running, audio_queue, restart_lock, restart_count,
                   last_restart_time, active_stream, stream_thread, worker, adder,
                   stopper, join_waited, session_exists, session_running, reporter,
                   callbacks, accepted, since_accept, nchunks, add_failed>>

\* len(closing_message.split()) of the two closing messages
ClosingWords(user_initiated) == IF user_initiated THEN 33 ELSE 34

\* total_wait_time, in tenths of a second:
\* (word_count / 150) * 30 + buffer_time
TotalWait(user_initiated) == (ClosingWords(user_initiated) * 300) \div 150 + 10 * buffer_time

\* whole seconds that cover a wait given in tenths
Seconds(tenths) == (tenths + 9) \div 10

\* the longest total_wait_time, in whole seconds
MaxWait == Seconds(TotalWait(FALSE))

\* end_interview_naturally, lines 187-219: the session marked not running,
\* the closing message emitted, the report thread started
EndClose(c) ==
    /\ FreeReporters # {}
    /\ checker' = [checker EXCEPT ![c] = IdleChecker]
    /\ session_running' = FALSE
    /\ emit' = {"ai_message_final"}
    /\ reporter' = [reporter EXCEPT ![Lowest(FreeReporters)] =
                        [IdleReporter EXCEPT !.pc = "generate",
                                             !.wait = TotalWait(checker[c].user_initiated)]]

\* end_interview_naturally: audio_processor.stop() is entered (a KeyError on
\* a removed session is caught by its own handler)
OrchEndEnter(c, joins) ==
    /\ checker[c].pc = "end"
    /\ IF ~session_exists
       THEN /\ checker' = [checker EXCEPT ![c] = IdleChecker]
            /\ emit' = {}
            /\ UNCHANGED <<is_running, is_listening, audio_queue, active_stream,
                           restart_lock, join_waited, session_running, reporter>>
       ELSE /\ StopEnter(joins)
            /\ checker' = [checker EXCEPT ![c].pc = IF joins THEN "join" ELSE "close"]
            /\ emit' = {}
            /\ UNCHANGED <<session_running, reporter>>
    /\ UNCHANGED <<questions_sent, prompt_at, starter, current_transcript, last_final_time, restart_count,
                   last_restart_time, stream_thread, worker, adder, stopper,
                   session_exists, chat_history, callbacks, accepted, since_accept,
                   nchunks, add_failed>>

\* end_interview_naturally: the join of stop() returns
OrchEndJoined(c) ==
    /\ checker[c].pc = "join"
    /\ StopJoined
    /\ checker' = [checker EXCEPT ![c].pc = "close"]
    /\ emit' = {}
    /\ UNCHANGED <<questions_sent, prompt_at, starter, is_running, is_listening, audio_queue, current_transcript,
                   last_final_time, restart_count, last_restart_time, active_stream,
                   stream_thread, worker, adder, stopper, session, callbacks, accepted,
                   since_accept, nchunks, add_failed>>

\* end_interview_naturally: stop() has returned, and the statements after it
\* are run (a KeyError on a removed session is caught by its own handler)
OrchEndClose(c) ==
    /\ checker[c].pc = "close"
    /\ IF session_exists
       THEN EndClose(c)
       ELSE /\ checker' = [checker EXCEPT ![c] = IdleChecker]
            /\ emit' = {}
            /\ UNCHANGED <<session_running, reporter>>
    /\ UNCHANGED <<questions_sent, prompt_at, starter, mgr, worker, adder, stopper, join_waited, session_exists,
                   chat_history, callbacks, accepted, since_accept, nchunks, add_failed>>

\* ------------------------------------------------------------------------
\* report.py, and the thread generate_and_send_report of flow.py
\* ------------------------------------------------------------------------
\* entry.get('score', 0), and entry.get('evaluation', '') with the
\* placeholder that stands for an empty evaluation: both are 0 here
GetOr0(value) == IF value = None THEN 0 ELSE value

\* the Q&A pairs of generate_dynamic_report, from the entry at index i on
\* (i counts from 1; the loop starts at the second entry)
RECURSIVE QaPairs(_, _)
QaPairs(history, i) ==
    IF i > Len(history) THEN <<>>
    ELSE (IF HasInterviewer(history[i]) /\ ~HasResume(history[i])
             /\ i + 1 <= Len(history) /\ HasCandidate(history[i + 1])
          THEN << [question |-> history[i].interviewer,
                   answer |-> history[i + 1].candidate,
                   score |-> IF i + 2 <= Len(history) /\ HasInterviewer(history[i + 2])
                             THEN GetOr0(history[i + 2].score) ELSE 0,
                   evaluation |-> IF i + 2 <= Len(history) /\ HasInterviewer(history[i + 2])
                                  THEN GetOr0(history[i + 2].evaluation) ELSE 0] >>
          ELSE <<>>)
         \o QaPairs(history, i + 1)

\* the Q&A pairs of generate_fallback_report, which have no evaluation
RECURSIVE FallbackPairs(_, _)
FallbackPairs(history, i) ==
    IF i > Len(history) THEN <<>>
    ELSE (IF HasInterviewer(history[i])
             /\ i + 1 <= Len(history) /\ HasCandidate(history[i + 1])
             /\ history[i + 1].candidate # <<>>
          THEN << [question |-> history[i].interviewer,
                   answer |-> history[i + 1].candidate,
                   score |-> GetOr0(history[i].score),
                   evaluation |-> None] >>
          ELSE <<>>)
         \o FallbackPairs(history, i + 1)

\* what becomes of the request for the AI analysis: a usable analysis, a reply
\* that is replaced by the rule-based analysis, or an exception
Analyses == {"ok", "unusable", "raises"}

\* 'detailed_qa' of the report generate_dynamic_report returns.  Without a
\* positive score the minimal report is returned and no analysis is requested.
detailed_qa(history, analysis) ==
    IF analysis = "raises" /\ \E i \in 1..Len(QaPairs(history, 2)) :
                                 QaPairs(history, 2)[i].score > 0
    THEN FallbackPairs(history, 2)
    ELSE QaPairs(history, 2)

\* generate_dynamic_report without the handler that returns the fallback
\* report: an exception of the analysis request leaves the thread with no report
ReportGenerate_no_fallback(r, analysis) ==
    /\ reporter[r].pc = "generate"
    /\ reporter' = [reporter EXCEPT ![r] =
          IF ~session_exists \/ Len(chat_history) < 2 \/ analysis = "raises"
          THEN IdleReporter
          ELSE [@ EXCEPT !.pc = "sleep", !.slept = 0,
                         !.detailed_qa = detailed_qa(chat_history, analysis)]]
    /\ emit' = {}
    /\ UNCHANGED <<mgr, threads, session_exists, session_running, chat_history,
                   callbacks, accepted, since_accept, nchunks, add_failed, prompt_at,
                   questions_sent>>

\* generate_dynamic_report(session_id) in the report thread; it returns None
\* for a session that was removed and for a history of fewer than two entries
ReportGenerate(r, analysis) ==
    /\ reporter[r].pc = "generate"
    /\ reporter' = [reporter EXCEPT ![r] =
          IF ~session_exists \/ Len(chat_history) < 2
          THEN IdleReporter
          ELSE [@ EXCEPT !.pc = "sleep", !.slept = 0,
                         !.detailed_qa = detailed_qa(chat_history, analysis)]]
    /\ emit' = {}
    /\ UNCHANGED <<mgr, threads, session_exists, session_running, chat_history,
                   callbacks, accepted, since_accept, nchunks, add_failed, prompt_at,
                   questions_sent>>

\* "interview_complete" is emitted with no time.sleep(total_wait_time)
ReportSend_at_once(r) ==
    /\ reporter[r].pc = "sleep"
    /\ reporter' = [reporter EXCEPT ![r] = IdleReporter]
    /\ emit' = {"interview_complete"}
    /\ UNCHANGED <<mgr, threads, session_exists, session_running, chat_history,
                   callbacks, accepted, since_accept, nchunks, add_failed, prompt_at,
                   questions_sent>>

\* time.sleep(total_wait_time) is over: "interview_complete" is emitted
ReportSend(r) ==
    /\ reporter[r].pc = "sleep"
    /\ 10 * reporter[r].slept >= reporter[r].wait
    /\ reporter' = [reporter EXCEPT ![r] = IdleReporter]
    /\ emit' = {"interview_complete"}
    /\ UNCHANGED <<mgr, threads, session_exists, session_running, chat_history,
                   callbacks, accepted, since_accept, nchunks, add_failed, prompt_at,
                   questions_sent>>

\* ------------------------------------------------------------------------
\* events.py: the socket handlers
\* ------------------------------------------------------------------------
\* handle_ai_speech_ended
AiSpeechEnded ==
    /\ session_exists /\ session_running
    /\ IF ~is_running
       THEN /\ start
            /\ UNCHANGED <<current_transcript, last_final_time>>
       ELSE /\ unmute
            /\ UNCHANGED <<is_running, restart_count, last_restart_time, stream_thread,
                           worker>>
    /\ emit' = {}
    /\ UNCHANGED <<questions_sent, prompt_at, starter, audio_queue, restart_lock, active_stream, checker, adder, stopper,
                   join_waited, session, callbacks, accepted, since_accept, nchunks,
                   add_failed>>

\* start_interview: the test of sessions[session_id]['is_running'], which
\* answers a running session with "error"
FreeStarts == {s \in StartIds : starter[s] = "none"}

StartInterview ==
    /\ FreeStarts # {}
    /\ IF ~session_exists
       THEN /\ emit' = {"KeyError"}
            /\ UNCHANGED starter
       ELSE IF session_running
       THEN /\ emit' = {"error"}
            /\ UNCHANGED starter
       ELSE /\ emit' = {}
            /\ starter' = [starter EXCEPT ![Lowest(FreeStarts)] = "begin"]
    /\ UNCHANGED <<mgr, worker, checker, adder, stopper, join_waited, session,
                   callbacks, accepted, since_accept, nchunks, add_failed, prompt_at,
                   questions_sent>>

\* a thread of the processor of this session is alive
ProcessorBusy ==
    \/ \E w \in WorkerIds : worker[w].pc # "none"
    \/ \E c \in CheckIds : checker[c].pc # "none"
    \/ \E a \in AdderIds : adder[a].pc # "none"
    \/ \E h \in StopHandlers : stopper[h] # "idle"

\* start_interview, lines 34-46: the running flag, a history that holds the
\* metadata entry, and a new processor in place of the one the session had
\* (a processor that is replaced while its threads are alive is not followed)
StartBegin(s) ==
    /\ starter[s] = "begin"
    /\ IF ~session_exists
       THEN /\ starter' = [starter EXCEPT ![s] = "none"]
            /\ emit' = {"KeyError"}
            /\ UNCHANGED <<mgr, session, questions_sent>>
       ELSE /\ ~ProcessorBusy
            /\ starter' = [starter EXCEPT ![s] = "llm"]
            /\ session_running' = TRUE
            /\ chat_history' = <<MetaEntry>>
            /\ questions_sent' = 0
            /\ is_running' = FALSE
            /\ is_listening' = FALSE
            /\ audio_queue' = <<>>
            /\ current_transcript' = <<>>
            /\ last_final_time' = None
            /\ restart_lock' = FALSE
            /\ restart_count' = 0
            /\ last_restart_time' = restart_cooldown
            /\ active_stream' = None
            /\ stream_thread' = None
            /\ emit' = {}
            /\ UNCHANGED <<session_exists, reporter>>
    /\ UNCHANGED <<worker, checker, adder, stopper, join_waited, callbacks, accepted,
                   since_accept, nchunks, add_failed, prompt_at>>

\* start_interview, lines 48-71: get_llm_response has returned the opening
\* question (or nothing, and the default question is used); it is appended
\* and emitted
StartQuestion(s) ==
    /\ starter[s] = "llm"
    /\ starter' = [starter EXCEPT ![s] = "none"]
    /\ IF ~session_exists
       THEN /\ emit' = {"KeyError"}
            /\ UNCHANGED <<chat_history, questions_sent>>
       ELSE /\ chat_history' =
                  Append(chat_history,
                         InterviewerEntry(Len(chat_history) + 1, None, None))
            /\ emit' = {"ai_message"}
            /\ questions_sent' = questions_sent + 1
    /\ UNCHANGED <<mgr, worker, checker, adder, stopper, join_waited, session_exists,
                   session_running, reporter, callbacks, accepted, since_accept,
                   nchunks, add_failed, prompt_at>>

\* handle_connect has registered the session: no interview was started and
\* the session has no processor
Connected ==
    /\ is_running = FALSE
    /\ is_listening = FALSE
    /\ audio_queue = <<>>
    /\ current_transcript = <<>>
    /\ last_final_time = None
    /\ restart_lock = FALSE
    /\ restart_count = 0
    /\ last_restart_time = restart_cooldown
    /\ active_stream = None
    /\ stream_thread = None
    /\ worker = [w \in WorkerIds |-> IdleWorker]
    /\ checker = [c \in CheckIds |-> IdleChecker]
    /\ adder = [a \in AdderIds |-> IdleAdder]
    /\ stopper = [h \in StopHandlers |-> "idle"]
    /\ join_waited = 0
    /\ starter = [s \in StartIds |-> "none"]
    /\ session_exists = TRUE
    /\ session_running = FALSE
    /\ chat_history = <<>>
    /\ reporter = [r \in ReportIds |-> IdleReporter]
    /\ emit = {}
    /\ callbacks = <<>>
    /\ accepted = <<>>
    /\ since_accept = None
    /\ nchunks = 0
    /\ add_failed = FALSE
    /\ prompt_at = 0
    /\ questions_sent = 0

\* stop_interview, up to the call of stop()
StopInterview ==
    /\ stopper["stop_interview"] = "idle"
    /\ session_exists /\ session_running
    /\ session_running' = FALSE
    /\ stopper' = [stopper EXCEPT !["stop_interview"] = "lock"]
    /\ emit' = {}
    /\ UNCHANGED <<questions_sent, prompt_at, starter, mgr, worker, checker, adder, join_waited, session_exists,
                   chat_history, reporter, callbacks, accepted, since_accept, nchunks,
                   add_failed>>

\* handle_disconnect, up to the call of stop()
Disconnect ==
    /\ stopper["disconnect"] = "idle"
    /\ session_exists
    /\ stopper' = [stopper EXCEPT !["disconnect"] = "lock"]
    /\ emit' = {}
    /\ UNCHANGED <<questions_sent, prompt_at, starter, mgr, worker, checker, adder, join_waited, session, callbacks,
                   accepted, since_accept, nchunks, add_failed>>

\* what the caller h of stop() does when stop() has returned: stop_interview
\* emits "info", handle_disconnect deletes the session (a direct call is
\* observed as "stop")
AfterStop(h) ==
    /\ stopper' = [stopper EXCEPT ![h] = "idle"]
    /\ emit' = IF h = "stop_interview" THEN {"info"}
                ELSE IF h = "api" THEN {"stop"} ELSE {}
    /\ session_exists' = IF h = "disconnect" THEN FALSE ELSE session_exists

\* the caller h enters stop()
HandlerStopEnter(h, joins) ==
    /\ stopper[h] = "lock"
    /\ StopEnter(joins)
    /\ IF joins
       THEN /\ stopper' = [stopper EXCEPT ![h] = "join"]
            /\ emit' = {}
            /\ UNCHANGED session_exists
       ELSE AfterStop(h)
    /\ UNCHANGED <<questions_sent, prompt_at, starter, current_transcript, last_final_time, restart_count,
                   last_restart_time, stream_thread, worker, checker, adder,
                   session_running, chat_history, reporter, callbacks, accepted,
                   since_accept, nchunks, add_failed>>

\* the join of the caller h returns
HandlerStopJoined(h) ==
    /\ stopper[h] = "join"
    /\ StopJoined
    /\ AfterStop(h)
    /\ UNCHANGED <<questions_sent, prompt_at, starter, is_running, is_listening, audio_queue, current_transcript,
                   last_final_time, restart_count, last_restart_time, active_stream,
                   stream_thread, worker, checker, adder, session_running, chat_history,
                   reporter, callbacks, accepted, since_accept, nchunks, add_failed>>

\* ------------------------------------------------------------------------
\* Direct calls of the methods of one StreamingAudioProcessor
\* ------------------------------------------------------------------------
CallStart ==
    /\ start
    /\ emit' = {"start"}
    /\ UNCHANGED <<questions_sent, prompt_at, starter, audio_queue, current_transcript, last_final_time,
                   restart_lock, active_stream, checker, adder, stopper, join_waited,
                   session, callbacks, accepted, since_accept, nchunks, add_failed>>

CallStop ==
    /\ stopper["api"] = "idle"
    /\ stopper' = [stopper EXCEPT !["api"] = "lock"]
    /\ emit' = {}
    /\ UNCHANGED <<questions_sent, prompt_at, starter, mgr, worker, checker, adder, join_waited, session, callbacks,
                   accepted, since_accept, nchunks, add_failed>>

CallMute ==
    /\ mute
    /\ emit' = {}
    /\ UNCHANGED <<questions_sent, prompt_at, starter, is_running, audio_queue, restart_lock, restart_count,
                   last_restart_time, active_stream, stream_thread, worker, checker,
                   adder, stopper, join_waited, session, callbacks, accepted,
                   since_accept, nchunks, add_failed>>

CallUnmute ==
    /\ unmute
    /\ emit' = {}
    /\ UNCHANGED <<questions_sent, prompt_at, starter, is_running, audio_queue, restart_lock, restart_count,
                   last_restart_time, active_stream, stream_thread, worker, checker,
                   adder, stopper, join_waited, session, callbacks, accepted,
                   since_accept, nchunks, add_failed>>

\* ------------------------------------------------------------------------
\* One second passes
\* ------------------------------------------------------------------------
Tick ==
    /\ last_final_time' = Older(last_final_time, SILENCE_THRESHOLD)
    /\ last_restart_time' = Older(last_restart_time, restart_cooldown)
    /\ since_accept' = Older(since_accept, SILENCE_THRESHOLD)
    /\ join_waited' = IF restart_lock THEN Older(join_waited, JoinTimeout) ELSE join_waited
    /\ worker' = [w \in WorkerIds |->
          IF worker[w].pc = "none" THEN worker[w]
          ELSE [worker[w] EXCEPT
                  !.slept = IF worker[w].pc = "sleep" THEN Older(@, Backoff(w)) ELSE @,
                  !.prev_restart = Older(@, restart_cooldown)]]
    /\ checker' = [c \in CheckIds |->
          IF checker[c].pc = "sleep"
          THEN [checker[c] EXCEPT !.slept = Older(@, SILENCE_THRESHOLD)]
          ELSE checker[c]]
    /\ reporter' = [r \in ReportIds |->
          IF reporter[r].pc = "sleep"
          THEN [reporter[r] EXCEPT !.slept = Older(@, MaxWait)]
          ELSE IF reporter[r].pc = "generate"
          THEN [reporter[r] EXCEPT !.slept = Older(@, MaxAssembly)]
          ELSE reporter[r]]
    /\ emit' = {}
    /\ UNCHANGED <<is_running, is_listening, audio_queue, current_transcript,
                   restart_lock, restart_count, active_stream, stream_thread, adder,
                   stopper, starter, session_exists, session_running, chat_history, callbacks,
                   accepted, nchunks, add_failed, prompt_at,
                   questions_sent>>

\* ------------------------------------------------------------------------
\* Specifications
\* ------------------------------------------------------------------------
\* the worker threads and the generators of their streams
WorkerStep ==
    \E w \in WorkerIds :
        \/ WhileCheck(w)
        \/ \E r \in Responses : RecvResponse(w, r)
        \/ StreamEnd(w)
        \/ \E e \in StreamErrors : StreamError(w, e)
        \/ ShouldRestart(w)
        \/ BackoffDone(w)
        \/ GenCheck(w)
        \/ GenGet(w)
        \/ GenTimeout(w)

\* the _check_silence threads, up to the callback
SilenceStep ==
    \E c \in CheckIds : SilenceWake(c) \/ SilenceTest(c) \/ SilenceCommit(c)

\* the callback: process_user_transcript and end_interview_naturally
OrchStep ==
    \E c \in CheckIds :
        \/ OrchEnter(c)
        \/ \E reply \in Replies : OrchReply(c, reply)
        \/ \E joins \in BOOLEAN : OrchEndEnter(c, joins)
        \/ OrchEndJoined(c)
        \/ OrchEndClose(c)

\* the start_interview handlers
StartStep ==
    \/ StartInterview
    \/ \E s \in StartIds : StartBegin(s) \/ StartQuestion(s)

\* the generate_and_send_report threads
ReportStep ==
    \E r \in ReportIds :
        \/ \E analysis \in Analyses : ReportGenerate(r, analysis)
        \/ ReportSend(r)

\* add_audio inside its callers
AdderStep ==
    \E a \in AdderIds : AddPut(a) \/ AddEvict(a) \/ AddReput(a)

\* the session of one client, from start_interview on
Next ==
    \/ AiSpeechEnded
    \/ AudioChunk(MaxChunks)
    \/ StopInterview
    \/ Disconnect
    \/ \E h \in {"stop_interview", "disconnect"} :
          \/ \E joins \in BOOLEAN : HandlerStopEnter(h, joins)
          \/ HandlerStopJoined(h)
    \/ StartStep
    \/ WorkerStep
    \/ SilenceStep
    \/ OrchStep
    \/ ReportStep
    \/ AdderStep
    \/ Tick

Spec == Init /\ [][Next]_vars

\* One processor with a silent backend: start() and stop() called in any
\* order while its streams end, fail and are restarted
Silent == {NoResult}

NextStream ==
    \/ CallStart
    \/ CallStop
    \/ \E joins \in BOOLEAN : HandlerStopEnter("api", joins)
    \/ HandlerStopJoined("api")
    \/ \E w \in WorkerIds :
          \/ WhileCheck(w)
          \/ \E r \in Silent : RecvResponse(w, r)
          \/ StreamEnd(w)
          \/ \E e \in StreamErrors : StreamError(w, e)
          \/ ShouldRestart(w)
          \/ BackoffDone(w)
    \/ Tick

SpecStream == Init /\ [][NextStream]_vars

\* One started processor whose stream delivers results: the utterance
\* segmenter, with the callback left running
NextSeg ==
    \/ CallStart
    \/ \E w \in WorkerIds :
          \/ WhileCheck(w)
          \/ \E r \in Responses : RecvResponse(w, r)
    \/ SilenceStep
    \/ Tick

SpecSeg == Init /\ [][NextSeg]_vars

\* One started processor and the audio it is fed while the generator of the
\* stream takes the chunks: add_audio is called from one handler at a time
\* until the queue is all but full, and from concurrent handlers from then on
NearlyFull == Len(audio_queue) >= QueueMaxSize - 1

FeedChunk ==
    /\ FreeAdders = AdderIds \/ NearlyFull
    /\ AudioChunk(QueueChunks)

NextQueue ==
    \/ CallStart
    \/ FeedChunk
    \/ AdderStep
    \/ \E w \in WorkerIds :
          \/ WhileCheck(w)
          \/ GenCheck(w)
          \/ GenGet(w)
          \/ GenTimeout(w)

SpecQueue == Init /\ [][NextQueue]_vars

\* One processor started and stopped while a few chunks of audio arrive
NextFeed ==
    \/ CallStart
    \/ CallStop
    \/ \E joins \in BOOLEAN : HandlerStopEnter("api", joins)
    \/ HandlerStopJoined("api")
    \/ AudioChunk(MaxChunks)
    \/ \E a \in AdderIds : AddPut(a)
    \/ \E w \in WorkerIds :
          \/ WhileCheck(w)
          \/ \E r \in Silent : RecvResponse(w, r)
          \/ GenCheck(w)
          \/ GenGet(w)
          \/ GenTimeout(w)
    \/ Tick

SpecFeed == Init /\ [][NextFeed]_vars

\* what the stream of a session delivers: no result, and interim and final
\* results whose text is accepted into the buffer
Heard ==
    {NoResult} \cup [kind : {"result"}, is_final : BOOLEAN,
                     transcript : {<<"h", "i">>, <<Blank, "b", "y", "e", Blank>>}]

\* The session of one client without stream failures and without audio: the
\* handlers, the worker reading results, the silence checks and the callback
NextSession ==
    \/ AiSpeechEnded
    \/ StopInterview
    \/ Disconnect
    \/ \E h \in {"stop_interview", "disconnect"} :
          \/ \E joins \in BOOLEAN : HandlerStopEnter(h, joins)
          \/ HandlerStopJoined(h)
    \/ \E w \in WorkerIds :
          \/ WhileCheck(w)
          \/ \E r \in Heard : RecvResponse(w, r)
          \/ StreamEnd(w)
    \/ SilenceStep
    \/ OrchStep
    \/ Tick

InitSession == TakenUp(History(MIN_QUESTIONS - 1))

SpecSession == InitSession /\ [][NextSession]_vars

\* The dialogue of one session that is taken up after any of QuestionCounts
\* questions: the candidate speaks answers and requests to stop, the
\* dialogue backend replies, the interview is closed and reported
Spoken == [kind : {"result"}, is_final : {TRUE}, transcript : {Answer, StopRequest}]

InitDialogue == \E k \in QuestionCounts : TakenUp(History(k))

NextDialogue ==
    \/ AiSpeechEnded
    \/ \E w \in WorkerIds :
          \/ WhileCheck(w)
          \/ \E r \in Spoken : RecvResponse(w, r)
    \/ SilenceStep
    \/ OrchStep
    \/ Tick

SpecDialogue == InitDialogue /\ [][NextDialogue]_vars

\* The close of an interview and its report: a session that may be closed
\* and listens to the candidate after its latest question, with the report
\* threads
InitReport == \E k \in {MIN_QUESTIONS, MAX_QUESTIONS} : Listening(History(k))

NextReport ==
    \/ \E w \in WorkerIds :
          \/ WhileCheck(w)
          \/ \E r \in Spoken : RecvResponse(w, r)
    \/ SilenceStep
    \/ OrchStep
    \/ ReportStep
    \/ Tick

SpecReport == InitReport /\ [][NextReport]_vars

\* The close of an interview that has reached MAX_QUESTIONS and listens to
\* the candidate, with the report threads scheduled and time passing
InitClose == Listening(History(MAX_QUESTIONS))

NextClose ==
    \/ \E w \in WorkerIds :
          \/ WhileCheck(w)
          \/ RecvResponse(w, [kind |-> "result", is_final |-> TRUE,
                                transcript |-> Answer])
    \/ SilenceStep
    \/ \E c \in CheckIds :
          \/ OrchEnter(c)
          \/ \E joins \in BOOLEAN : OrchEndEnter(c, joins)
          \/ OrchEndJoined(c)
          \/ OrchEndClose(c)
    \/ ReportStep
    \/ Tick

ReportFairness ==
    /\ WF_vars(Tick)
    /\ \A r \in ReportIds :
          /\ WF_vars(\E analysis \in Analyses : ReportGenerate(r, analysis))
          /\ WF_vars(ReportSend(r))

SpecClose == InitClose /\ [][NextClose]_vars /\ ReportFairness

\* The interviews of one connected client: start_interview and stop_interview
\* in any order, ai_speech_ended, and the worker of the processor
NextStart ==
    \/ StartStep
    \/ AiSpeechEnded
    \/ StopInterview
    \/ \E joins \in BOOLEAN : HandlerStopEnter("stop_interview", joins)
    \/ HandlerStopJoined("stop_interview")
    \/ \E w \in WorkerIds :
          \/ WhileCheck(w)
          \/ \E r \in Silent : RecvResponse(w, r)
    \/ Tick

SpecStart == Connected /\ [][NextStart]_vars

\* ------------------------------------------------------------------------
\* Claims
\* ------------------------------------------------------------------------
\* every _check_silence thread that was started has made its check
ChecksDone == \A c \in CheckIds : checker[c].pc \in {"none", "callback"}

\* two fragments were accepted, the second less than SILENCE_THRESHOLD after
\* the first, and none since
TwoFragments == Len(accepted) = 2 /\ accepted[2].gap < SILENCE_THRESHOLD

\* C1: when two final fragments have been accepted less than SILENCE_THRESHOLD
\* apart and no other, the completion callback is invoked at most once, with
\* the two trimmed fragments joined by one space; and once the threshold has
\* passed and every silence check has run, it has been invoked exactly once
\* and the buffer is empty.
C1_OnceWithJoinedText ==
    TwoFragments =>
        /\ Len(callbacks) <= 1
        /\ \A i \in 1..Len(callbacks) :
              callbacks[i] = accepted[1].text \o <<Blank>> \o accepted[2].text
        /\ (since_accept >= SILENCE_THRESHOLD /\ ChecksDone) =>
              (Len(callbacks) = 1 /\ current_transcript = <<>>)

\* the check of thread c wakes less than SILENCE_THRESHOLD after the newest
\* accepted fragment
StaleWake(c) ==
    /\ SilenceWake(c)
    /\ since_accept # None
    /\ since_accept < SILENCE_THRESHOLD

\* C2: a step that invokes the completion callback is taken no earlier than
\* SILENCE_THRESHOLD after the last accepted fragment; and a silence check that
\* wakes earlier than that ends without a callback and leaves the buffer and
\* last_final_time as they are.
C2_Debounce ==
    [][ /\ "callback" \in emit' =>
              (since_accept' # None /\ since_accept' >= SILENCE_THRESHOLD)
        /\ \A c \in CheckIds :
              StaleWake(c) =>
                  /\ checker'[c].pc = "none"
                  /\ UNCHANGED <<callbacks, current_transcript, last_final_time>>
      ]_vars

\* the transient failures that _stream_audio counts
Counted == TransientErrors \cup {"UnknownIterating"}

\* C3: over any sequence of start() and stop() calls the running flag is set
\* by start(), cleared by stop() and changed by nothing else, so that it is
\* true exactly when the last call was start(); start() on a running
\* processor launches no worker and leaves the restart counter alone; stop()
\* on a stopped processor returns without joining and changes nothing.
C3_StartStop ==
    [][ /\ CallStart => is_running'
        /\ \A joins \in BOOLEAN : HandlerStopEnter("api", joins) => ~is_running'
        /\ is_running' # is_running =>
               (CallStart \/ \E joins \in BOOLEAN : HandlerStopEnter("api", joins))
        /\ (CallStart /\ is_running) =>
               UNCHANGED <<worker, stream_thread, restart_count, last_restart_time>>
        /\ \A joins \in BOOLEAN : (HandlerStopEnter("api", joins) /\ ~is_running) =>
               /\ stopper'["api"] = "idle"
               /\ UNCHANGED <<mgr, worker>> ]_vars

\* start() has just returned on a processor that had restarted streams: it
\* was running, and the counter is as it was
C3_Witness == "start" \in emit /\ restart_count > 0 /\ IsAlive(stream_thread)

\* C4: the processor listens only while it runs.
C4_ListeningImpliesRunning == is_listening => is_running

\* running and muted
Muted == is_running /\ ~is_listening

Surfaced == {"interim_transcript", "final_transcript_part", "callback"}

\* C5: a step taken while the processor is muted produces no interim
\* transcript, no final part and no callback; a response read while muted
\* leaves the worker on the same stream; and a response with a result read
\* while listening is surfaced, unless it is a final result too short to keep.
C5_MutedIsSilent ==
    [][ /\ Muted => emit' \cap Surfaced = {}
        /\ \A w \in WorkerIds : \A r \in Responses :
              /\ (Muted /\ RecvResponse(w, r)) =>
                    /\ worker'[w].pc = "responses"
                    /\ UNCHANGED <<active_stream, stream_thread>>
              /\ (is_running /\ is_listening /\ RecvResponse(w, r) /\ r.kind # "empty") =>
                    \/ emit' \cap Surfaced # {}
                    \/ r.is_final /\ ~Accepts(r.transcript) ]_vars

\* stop() has returned, start() has not been called since, and no add_audio
\* call is under way
Stopped ==
    /\ ~is_running
    /\ stopper["api"] = "idle"
    /\ \A a \in AdderIds : adder[a].pc = "none"

\* C6: once stop() has returned, and until start() is called, the queue holds
\* no audio chunk, and an add_audio call made then puts none in.
C6_EmptyWhileStopped ==
    [][ /\ Stopped' => AudioOf(audio_queue') = <<>>
        /\ (Stopped /\ AudioChunk(MaxChunks)) => UNCHANGED <<audio_queue, adder>> ]_vars

\* C7: the queue never holds more than QueueMaxSize items; no add_audio call
\* fails; a call that found the queue full takes the oldest item out and
\* then puts its chunk in as the newest.
C7_BoundedDropOldest ==
    [][ /\ Len(audio_queue') <= QueueMaxSize
        /\ ~add_failed'
        /\ \A a \in AdderIds :
              /\ AddEvict(a) =>
                    /\ audio_queue # <<>>
                    /\ audio_queue' = Tail(audio_queue)
                    /\ adder'[a].pc = "reput"
              /\ AddReput(a) =>
                    /\ audio_queue' # <<>>
                    /\ audio_queue'[Len(audio_queue')] = adder[a].chunk ]_vars

C9_Cooldown ==
    [][ \A w \in WorkerIds :
          (WhileCheck(w) /\ worker[w].erred /\ worker'[w].pc = "responses") =>
              worker[w].prev_restart >= restart_cooldown ]_vars

\* C10: the transient failure that follows max_consecutive_errors - 1 others
\* with no stream completed in between ends the worker; a live worker has
\* counted fewer than max_consecutive_errors; a completed stream sets the
\* count to zero.
C10_ThreeStrikes ==
    [][ \A w \in WorkerIds :
          /\ \A e \in Counted :
                (StreamError(w, e)
                   /\ worker[w].consecutive_errors = max_consecutive_errors - 1) =>
                      worker'[w].pc = "none"
          /\ worker'[w].consecutive_errors < max_consecutive_errors
          /\ StreamEnd(w) => worker'[w].consecutive_errors = 0 ]_vars

\* the third failure in a row has just ended the worker of a running processor
C10_Witness ==
    /\ "too_many_consecutive_errors" \in emit
    /\ is_running
    /\ restart_count = max_consecutive_errors - 1
    /\ \A w \in WorkerIds : worker[w].pc = "none"

\* the _check_silence threads that are inside process_user_transcript, and
\* those of them that wait for the reply of the dialogue backend
InProgress == {c \in CheckIds : checker[c].pc \in {"callback", "llm", "end", "join", "close"}}
AwaitingReply == {c \in CheckIds : checker[c].pc = "llm"}

\* C11: at most one process_user_transcript is in progress for the session
\* at any time, and so at most one request to the dialogue backend is
\* outstanding (turn events then follow the order of the utterances).
C11_OneAtATime ==
    /\ Cardinality(InProgress) <= 1
    /\ Cardinality(AwaitingReply) <= 1

\* the events that go out to the client of the session
Outbound ==
    {"interim_transcript", "final_transcript_part", "user_transcript", "ai_message",
     "ai_message_plain", "ai_message_requires_confirmation", "ai_message_final",
     "interview_complete"}

\* C12: once handle_disconnect has removed the session, no step of a thread
\* that is left over emits an event to the client, and none ends with an
\* exception for the missing registry entry.
C12_QuietAfterDisconnect ==
    [][ ~session_exists => emit' \cap (Outbound \cup {"KeyError"}) = {} ]_vars

\* a stop() that found the processor running returns in this step
StopReturns ==
    \/ \E h \in StopHandlers : HandlerStopJoined(h)
    \/ \E h \in StopHandlers : HandlerStopEnter(h, FALSE) /\ is_running
    \/ \E c \in CheckIds : OrchEndJoined(c)
    \/ \E c \in CheckIds : OrchEndEnter(c, FALSE) /\ session_exists /\ is_running

\* the processor is stopped and no stop() is in progress
StopReturned == ~is_running /\ ~restart_lock

\* C13: when a stop() that found the processor running returns, the worker
\* thread has ended, the stream handle is released and the audio queue holds
\* no chunk; and while the processor stays stopped no _check_silence thread
\* invokes the completion callback.
C13_StopIsFinal ==
    [][ /\ StopReturns =>
              /\ \A w \in WorkerIds : worker'[w].pc = "none"
              /\ active_stream' = None
              /\ \A i \in 1..Len(audio_queue') : audio_queue'[i] = None
        /\ StopReturned => "callback" \notin emit' ]_vars

\* the callback of thread c was invoked with a request to stop the interview
\* and the session exists
StopAsked(c) ==
    /\ session_exists
    /\ Len(clean_transcript(checker[c].complete_text)) >= 3
    /\ check_stop_command(clean_transcript(checker[c].complete_text))

\* C14: a request to stop made when at least MIN_QUESTIONS questions were
\* asked ends the interview with the user-initiated closing; made earlier, it
\* mutes the processor and emits exactly one ai_message that asks for
\* confirmation, while the session stays running and the processor stays
\* started.  In both cases the history is left as it was.
C14_StopRequest ==
    [][ \A c \in CheckIds : (OrchEnter(c) /\ StopAsked(c)) =>
          /\ chat_history' = chat_history
          /\ IF get_question_count(chat_history) >= MIN_QUESTIONS
             THEN /\ checker'[c].pc = "end"
                  /\ checker'[c].user_initiated
                  /\ emit' = {}
             ELSE /\ ~is_listening'
                  /\ emit' = {"ai_message_requires_confirmation"}
                  /\ session_running' = session_running
                  /\ is_running' = is_running
                  /\ checker'[c].pc = "none" ]_vars

\* a request to stop has just been answered with the request for confirmation
\* in a running session
C14_Witness ==
    /\ emit = {"ai_message_requires_confirmation"}
    /\ get_question_count(chat_history) < MIN_QUESTIONS
    /\ session_running /\ is_running /\ ~is_listening
    /\ callbacks # <<>> /\ check_stop_command(callbacks[Len(callbacks)])

\* C15: a structured reply with should_continue false ends the interview,
\* with no turn event, when at least MIN_QUESTIONS questions had been asked
\* before it; with fewer it is handled as a normal turn: one ai_message, and
\* the session stays running.
C15_EarlyEnd ==
    [][ \A c \in CheckIds : (OrchReply(c, "end") /\ session_exists) =>
          IF get_question_count(chat_history) >= MIN_QUESTIONS
          THEN /\ checker'[c].pc = "end"
               /\ ~checker'[c].user_initiated
               /\ emit' = {}
          ELSE /\ checker'[c].pc = "none"
               /\ emit' = {"ai_message"}
               /\ session_running' = session_running
               /\ is_running' = is_running ]_vars

\* a reply has just ended an interview that could have gone on: the closing
\* that is not user-initiated is under way
C15_Witness ==
    /\ \E c \in CheckIds : checker[c].pc = "end" /\ ~checker[c].user_initiated
    /\ HasInterviewer(chat_history[Len(chat_history)])
    /\ get_question_count(chat_history) - 1 >= MIN_QUESTIONS
    /\ get_question_count(chat_history) - 1 < MAX_QUESTIONS
    /\ emit = {}

\* C16: the history never holds more than MAX_QUESTIONS questions; and the
\* answer that is appended when MAX_QUESTIONS questions have been asked ends
\* the interview with no request to the dialogue backend.
C16_AtMostMax ==
    /\ get_question_count(chat_history) <= MAX_QUESTIONS
    /\ \A c \in CheckIds :
          checker[c].pc = "llm" => checker[c].prompt_count < MAX_QUESTIONS

\* the replies that are not the structured object: text that is not JSON, and
\* JSON that is not an object
Unstructured == {"invalid", "raises"}

\* C17: a reply that cannot be parsed as the structured object adds exactly
\* one interviewer entry that holds the raw reply and neither evaluation nor
\* score, emits one ai_message with the raw text and no score or evaluation,
\* and so raises the number of questions by one.
C17_RawReply ==
    [][ \A c \in CheckIds : \A reply \in Unstructured :
          (OrchReply(c, reply) /\ session_exists) =>
              /\ chat_history' =
                    Append(chat_history,
                           InterviewerEntry(Len(chat_history) + 1, None, None))
              /\ emit' = {"ai_message_plain"}
              /\ get_question_count(chat_history') =
                    get_question_count(chat_history) + 1 ]_vars

\* C18: "interview_complete" is emitted only after the closing message of the
\* interview (which is emitted as the session is marked not running), and no
\* sooner after it than the estimated duration of the closing message plus
\* buffer_time: the thread that emits it was started after the closing message
\* and has slept that long.
C18_ReportAfterClosing ==
    [][ \A r \in ReportIds : ReportSend(r) =>
          /\ ~session_running
          /\ reporter[r].wait \in {TotalWait(TRUE), TotalWait(FALSE)}
          /\ 10 * reporter[r].slept >= reporter[r].wait
          /\ reporter[r].wait >= 2 * ClosingWords(TRUE) + 10 * buffer_time ]_vars

\* "interview_complete" has just been emitted for an interview that was closed
C18_Witness ==
    /\ emit = {"interview_complete"}
    /\ ~session_running
    /\ \E r \in ReportIds : reporter[r].pc = "none"

\* C19: in every report that is built, the pair of a question carries the
\* answer that follows the question in the history and the evaluation and
\* score stored on the interviewer entry that follows that answer, whichever
\* way the report was produced.  (The text of a question is the number of
\* its place in the history.)
C19_PairsScoreOfNext ==
    [][ \A r \in ReportIds : \A analysis \in Analyses :
          ReportGenerate(r, analysis) =>
             \A i \in 1..Len(reporter'[r].detailed_qa) :
                LET pair == reporter'[r].detailed_qa[i]
                    n == pair.question
                IN  /\ pair.answer = chat_history[n + 1].candidate
                    /\ (n + 2 <= Len(chat_history)
                          /\ HasInterviewer(chat_history[n + 2])) =>
                            /\ pair.score = GetOr0(chat_history[n + 2].score)
                            /\ pair.evaluation =
                                  GetOr0(chat_history[n + 2].evaluation) ]_vars

\* the entries of a history that are turns of the interviewer
InterviewerTurns(history) ==
    {i \in 1..Len(history) : history[i].kind = "interviewer"}

\* C20: the number of questions asked is the number of interviewer entries of
\* the history, the metadata entry and the answers not counted; it is 2 for
\* [metadata, question, answer, question]; and the number the orchestrator
\* decides with is the number put into the prompt of the dialogue backend.
C20_CountsQuestions ==
    /\ get_question_count(chat_history) = Cardinality(InterviewerTurns(chat_history))
    /\ llm_questions_asked(chat_history) = get_question_count(chat_history)
    /\ get_question_count(<<MetaEntry, InterviewerEntry(2, None, None),
                            CandidateEntry(Answer), InterviewerEntry(4, 4, 4)>>) = 2

\* the session holds the history [metadata, question, answer, question], for
\* which both counts are 2
C20_Witness ==
    /\ Len(chat_history) = 4
    /\ chat_history[1].kind = "metadata"
    /\ chat_history[2].kind = "interviewer"
    /\ chat_history[3].kind = "candidate"
    /\ chat_history[4].kind = "interviewer"
    /\ get_question_count(chat_history) = 2
    /\ emit = {"ai_message"}

\* C21: start_interview on a session that is running emits one "error" and
\* changes neither the history nor the processor nor the running flag, and
\* it calls no backend; and of the start_interview handlers that run at the
\* same time only one starts the interview: a handler sets the session
\* running only when it is not.
C21_StartOnce ==
    [][ /\ (StartInterview /\ session_exists /\ session_running) =>
              /\ emit' = {"error"}
              /\ UNCHANGED <<mgr, session, starter>>
        /\ \A s \in StartIds :
              (StartBegin(s) /\ session_exists) => ~session_running ]_vars

\* the handler of stop_interview, which found the session running, returns
StopInterviewDone ==
    \/ HandlerStopJoined("stop_interview")
    \/ HandlerStopEnter("stop_interview", FALSE)

\* C22: stop_interview on a running session ends the interview as the
\* orchestrator does: when its handler returns the processor is stopped, the
\* session is not running, the closing message has been emitted and a report
\* thread, which will emit "interview_complete", has been started.
C22_StopEndsInterview ==
    [][ StopInterviewDone =>
          /\ ~is_running'
          /\ ~session_running'
          /\ "ai_message_final" \in emit'
          /\ \E r \in ReportIds : reporter'[r].pc = "generate" ]_vars

\* C23: whatever the dialogue backend returns for an answer that was
\* accepted below MAX_QUESTIONS, the turn completes: one interviewer entry is
\* appended to the history, and one ai_message is emitted, either the next
\* question or (once the closing has run) the closing message.
C23_TurnCompletes ==
    [][ \A c \in CheckIds : \A reply \in Replies :
          (OrchReply(c, reply) /\ session_exists) =>
              /\ Len(chat_history') = Len(chat_history) + 1
              /\ HasInterviewer(chat_history'[Len(chat_history')])
              /\ \/ emit' \in {{"ai_message"}, {"ai_message_plain"}}
                 \/ checker'[c].pc = "end" ]_vars

Confirmation == <<"i", "'", "m", Blank, "d", "o", "n", "e">>

Insisting == [kind : {"result"}, is_final : {TRUE},
              transcript : {StopRequest, Confirmation}]

InitConfirm == TakenUp(History(1))

NextConfirm ==
    \/ AiSpeechEnded
    \/ \E w \in WorkerIds : \E r \in Insisting : RecvResponse(w, r)
    \/ SilenceStep
    \/ \E c \in CheckIds : OrchEnter(c)
    \/ Tick

SpecConfirm == InitConfirm /\ [][NextConfirm]_vars

\* C25: the utterance completed next after a confirmation prompt is taken as
\* the answer to it and is not evaluated for stop intent again: handling it
\* never emits a second confirmation prompt.  The prompt answers an
\* utterance of one fragment, and the next utterance is the fragment that
\* is accepted after the prompt.
C25_NoSecondPrompt ==
    [][ \A c \in CheckIds :
           ( /\ OrchEnter(c)
             /\ session_exists
             /\ prompt_at = 1 /\ Len(accepted) = 2
             /\ callbacks = <<accepted[1].text, accepted[2].text>>
             /\ accepted[1].text # accepted[2].text
             /\ checker[c].complete_text = accepted[2].text )
           => emit' # {"ai_message_requires_confirmation"} ]_vars

\* C26: once the orchestrator has performed the transition from Running to
\* Ending, the session is not running and its manager is not running until
\* the next start_interview: the step that completes the transition leaves
\* both flags false, and no step other than one of start_interview sets
\* either of them again.
C26_EndingIsStable ==
    [][ /\ (\E c \in CheckIds : OrchEndClose(c) /\ session_exists)
              => ~session_running' /\ ~is_running'
        /\ ( /\ session_exists /\ ~session_running /\ ~is_running
             /\ \A s \in StartIds : starter[s] = "none" )
              => ~session_running' /\ ~is_running' ]_vars

\* C27: while the session exists its history only grows by appending: every
\* step leaves the entries the history had in their places.  The steps
\* looked at are those taken while no interview is running, so that the
\* handler that writes the history is the only start_interview at work.
C27_HistoryAppendOnly ==
    [][ (session_exists /\ session_exists' /\ ~session_running) =>
           /\ Len(chat_history') >= Len(chat_history)
           /\ SubSeq(chat_history', 1, Len(chat_history)) = chat_history ]_vars

\* A running session whose recognition stream fails with transient errors
\* only, while the client reports the end of each synthesized utterance
InitRecover == TakenUp(History(1))

NextRecover ==
    \/ AiSpeechEnded
    \/ \E w \in WorkerIds :
          \/ WhileCheck(w)
          \/ \E r \in Silent : RecvResponse(w, r)
          \/ StreamEnd(w)
          \/ \E e \in TransientErrors : StreamError(w, e)
          \/ ShouldRestart(w)
          \/ BackoffDone(w)
    \/ Tick

SpecRecover == InitRecover /\ [][NextRecover]_vars

\* the stream worker of the processor has ended
WorkerEnded == \A w \in WorkerIds : worker[w].pc = "none"

\* C28: after the stream worker has ended because of transient errors while
\* the session is running, the next ai_speech_ended restarts the processor:
\* a stream worker is alive again when the handler returns.
C28_SpeechEndedRestarts ==
    [][ (AiSpeechEnded /\ session_running /\ WorkerEnded)
           => \E w \in WorkerIds : worker'[w].pc # "none" ]_vars

\* the fragments a delivered text is made of (a fragment of Transcripts holds
\* no blank once it is trimmed, and fragments are joined by one blank)
FragmentsOf(text) == Cardinality({k \in 1..Len(text) : text[k] = Blank}) + 1

\* C29: overlapping silence checks never fire twice for one buffer: two
\* callbacks that carry the same text come from two buffers, so the
\* fragments accepted are at least those of both.
C29_NoDoubleFire ==
    \A i, j \in 1..Len(callbacks) :
        (i < j /\ callbacks[i] = callbacks[j]) =>
            2 * FragmentsOf(callbacks[i]) <= Len(accepted)

\* a step of process_user_transcript or of handle_ai_speech_ended, the
\* callers of mute() and unmute()
MuteCaller ==
    \/ AiSpeechEnded
    \/ \E c \in CheckIds : OrchEnter(c) \/ \E reply \in Replies : OrchReply(c, reply)

\* C30: start(), stop(), mute() and unmute() exclude each other: while a
\* start() or stop() holds restart_lock, no mute() or unmute() changes the
\* listening flag or the buffer of the segmenter.
C30_MutatorsExclusive ==
    [][ (restart_lock /\ MuteCaller) =>
           UNCHANGED <<is_listening, current_transcript, last_final_time>> ]_vars

\* the streaming workers that have not exited
AliveWorkers == {w \in WorkerIds : worker[w].pc # "none"}

\* C31: at most one streaming worker of the processor is alive at any time,
\* and the stream handle in active_stream belongs to the worker that
\* stream_thread names, over every sequence of start() and stop() calls.
C31_OneWorker ==
    /\ Cardinality(AliveWorkers) <= 1
    /\ active_stream # None => active_stream = stream_thread

\* the errors that are neither a cancellation caused by stop() nor among
\* those the worker may restart after
Fatal(e) ==
    \/ e \in {"UnknownOther", "Other"}
    \/ e = "Cancelled" /\ is_running

\* C32: a stream that ends with an error which is neither the cancellation
\* of a stop() nor transient ends the worker: it exits, and so opens no
\* stream before the next start().
C32_FatalEndsWorker ==
    [][ \A w \in WorkerIds : \A e \in StreamErrors :
           (StreamError(w, e) /\ Fatal(e)) => worker'[w].pc = "none" ]_vars

\* One processor over its runs: start(), stop(), mute() and unmute() called
\* in any order while its streams end, fail with transient errors and are
\* restarted
NextRun ==
    \/ CallStart
    \/ CallStop
    \/ CallMute
    \/ CallUnmute
    \/ \E joins \in BOOLEAN : HandlerStopEnter("api", joins)
    \/ HandlerStopJoined("api")
    \/ \E w \in WorkerIds :
          \/ WhileCheck(w)
          \/ \E r \in Silent : RecvResponse(w, r)
          \/ StreamEnd(w)
          \/ \E e \in TransientErrors : StreamError(w, e)
          \/ ShouldRestart(w)
          \/ BackoffDone(w)
    \/ Tick

SpecRun == Init /\ [][NextRun]_vars

\* C33: the restart counter never decreases within a run: a step that lowers
\* it is a start() of a stopped processor, which sets it to zero; a step
\* that raises it is a granted _should_restart, which adds one; and mute(),
\* unmute(), stop() and the end of a stream leave it alone.
C33_CounterMonotone ==
    [][ /\ restart_count' < restart_count =>
              (CallStart /\ ~is_running /\ restart_count' = 0)
        /\ restart_count' > restart_count =>
              (restart_count' = restart_count + 1 /\ \E w \in WorkerIds : ShouldRestart(w))
        /\ (CallStart /\ is_running) => restart_count' = restart_count
        /\ (CallStart /\ ~is_running) => restart_count' = 0 ]_vars

\* stop() has just returned in a run whose streams were restarted: the
\* counter holds the restarts of the run
C33_Witness ==
    /\ "stop" \in emit
    /\ ~is_running
    /\ restart_count > 0

\* the shape of a history: the metadata entry, then interviewer turns and
\* candidate turns in alternation, an interviewer turn first
Alternates(history) ==
    /\ Len(history) >= 2
    /\ history[1].kind = "metadata"
    /\ \A i \in 2..Len(history) :
          history[i].kind = (IF i % 2 = 0 THEN "interviewer" ELSE "candidate")

\* C34: in every state of a started interview the history is the metadata
\* entry, then an interviewer turn, then interviewer turns and candidate turns
\* in strict alternation: no two candidate turns and no two interviewer turns
\* are adjacent, whatever the utterances and the replies of the backend
C34_HistoryAlternates ==
    (session_exists /\ Len(chat_history) >= 2) => Alternates(chat_history)

\* C35: the wait that defers "interview_complete" runs from the closing
\* message on, with the report assembled meanwhile: the time the assembly of
\* the report took counts towards the wait, so it is not added on top of it.
C35_WaitFromClosing ==
    [][ \A r \in ReportIds : \A analysis \in Analyses :
          (ReportGenerate(r, analysis) /\ reporter'[r].pc = "sleep") =>
              reporter'[r].slept = reporter[r].slept ]_vars

\* C36: whenever the processor is running its stream worker is alive, reading
\* audio and responses or waiting out a backoff: in no state is is_running
\* true with the worker exited.
C36_RunningHasWorker ==
    is_running => IsAlive(stream_thread)

\* C37: a worker whose stream ended with an error opens its next stream only
\* after _should_restart has granted the restart: the call either counts the
\* restart, clears the buffered audio and sends the worker into its backoff
\* sleep, or the worker ends; so a worker that returns to its loop after an
\* error has been counted, and the counter keeps within max_restarts.
C37_RestartGated ==
    [][ \A w \in WorkerIds :
          /\ ShouldRestart(w) =>
                \/ worker'[w].pc = "none"
                \/ /\ restart_count' = restart_count + 1
                   /\ restart_count' <= max_restarts
                   /\ audio_queue' = <<>>
                   /\ worker'[w].pc = "sleep"
          /\ (worker[w].pc = "restart" /\ worker'[w].pc # "restart") =>
                ShouldRestart(w) ]_vars

\* C38: no accepted fragment is lost and none is delivered twice: with no
\* mute(), unmute() or stop() in between, the silence check that clears the
\* buffer clears what it has taken from it, the text it passes to the callback
\* or discards as too short, whenever the worker appends its fragments.
C38_ClearsWhatItTook ==
    [][ \A c \in CheckIds :
          SilenceCommit(c) =>
              Strip(current_transcript) = checker[c].complete_text ]_vars

\* the report threads that have not emitted "interview_complete" yet
Reporting == {r \in ReportIds : reporter[r].pc # "none"}

\* C39: an interview is closed once: the closing message is emitted for an
\* interview that has not been closed before, so one interview has at most
\* one closing message and at most one report thread, hence at most one
\* "interview_complete".
C39_ClosedOnce ==
    [][ \A c \in CheckIds :
          (OrchEndClose(c) /\ session_exists) =>
              /\ session_running
              /\ Reporting = {}
              /\ Cardinality({r \in ReportIds : reporter'[r].pc # "none"}) = 1 ]_vars

\* "question_number" of a turn event: questions_asked + 1, with
\* questions_asked counted before the entry of the question is appended
question_number(history) == get_question_count(history) + 1

\* C40: the number of questions the closing message states is the number of
\* questions that were emitted to the candidate as "ai_message" turn events
\* in the interview, however the interview ends; and the question_number of
\* every turn event is the number of interviewer turns the history holds
\* when the event is emitted.
C40_ClosingCountsQuestions ==
    [][ \A c \in CheckIds :
          /\ (OrchEndClose(c) /\ session_exists) =>
                checker[c].questions_asked = questions_sent
          /\ \A reply \in Replies :
                (OrchReply(c, reply) /\ questions_sent' = questions_sent + 1) =>
                    question_number(chat_history) =
                        Cardinality(InterviewerTurns(chat_history')) ]_vars

====
